---- MODULE Spec2Model ----
(***************************************************************************)
(* Model of sveltefire's Firestore stores.                                 *)
(*                                                                         *)
(*   src/src/lib/stores/firestore.ts  docStore, collectionStore,           *)
(*                                    userDataStore (firestore taken from  *)
(*                                    the Firebase context)                *)
(*   src/unnamed/part_000             docStore, collectionStore,           *)
(*                                    getCollectionValue, getDocValue      *)
(*                                    (firestore passed as an argument)    *)
(*                                                                         *)
(* The stores are built on svelte/store's writable and derived and on the  *)
(* Firestore SDK's onSnapshot.  Those libraries are modelled by their      *)
(* contract: writable keeps a value, a subscriber set and a stop function; *)
(* it runs its start function when the subscriber set goes from empty to   *)
(* one element and its stop function when the set becomes empty again;     *)
(* set(v) stores v and notifies every subscriber unless v is a primitive   *)
(* equal to the stored value.  onSnapshot registers a listener and returns *)
(* the function that cancels it; the SDK calls a listener back             *)
(* asynchronously, never from inside onSnapshot.  For userDataStore a      *)
(* snapshot that was on its way when its listener was cancelled may still  *)
(* be handed to the callback (LateSnapshot).                               *)
(*                                                                         *)
(* userStore (./auth.js) and getFirebaseContext (./sdk.js) are not part of *)
(* the sources at hand: the first is modelled as a store whose value is    *)
(* the current user, the second as a context whose firestore may be        *)
(* missing.                                                                *)
(***************************************************************************)
EXTENDS Integers, Sequences, FiniteSets, TLC

\* ------------------------------------------------------------ bounds
MaxSubs == 2
MaxListeners == 3
MaxSnaps == 3

SubIds == 1..MaxSubs

\* ------------------------------------------------------------ JS values
\* A JS value: undefined, null, an object (a set of <<key, value>> pairs with
\* distinct keys) or an array of objects.
Undefined == [t |-> "undefined", o |-> {}, l |-> <<>>]
Null == [t |-> "null", o |-> {}, l |-> <<>>]
Obj(fields) == [t |-> "object", o |-> fields, l |-> <<>>]
List(records) == [t |-> "list", o |-> {}, l |-> records]
EmptyList == List(<<>>)

Keys(fields) == {p[1] : p \in fields}

\* { ...a, ...b }: the keys of b replace those of a.
Spread(a, b) == {p \in a : p[1] \notin Keys(b)} \cup b

\* a ?? b
Coalesce(a, b) == IF a.t \in {"undefined", "null"} THEN b ELSE a

\* svelte's safe_not_equal: objects always count as changed, primitives
\* only when they differ.
safe_not_equal(a, b) == a /= b \/ a.t \in {"object", "list"}

\* ------------------------------------------------------------ references
NullRef == "null"
DocPath == "docs/d1"
ColPath == "docs"

\* doc(firestore, path).id: the last segment of the path.
RefId(path) ==
    CASE path = "docs/d1" -> "d1"
      [] path = "docs/d2" -> "d2"
      [] path = "users/a" -> "a"
      [] path = "users/b" -> "b"
      [] OTHER -> path

\* typeof ref === "string" ? doc(firestore, ref) : ref
ResolveRef(arg) == IF arg.isString THEN "ref:" \o arg.path ELSE arg.ref

RefArgs(path) == { [isString |-> TRUE, path |-> path, ref |-> NullRef],
                   [isString |-> FALSE, path |-> path, ref |-> "ref:" \o path] }

RefIdOf(arg) == RefId(arg.path)

\* ------------------------------------------------------------ snapshots
\* A document snapshot: exists, with its id, reference and fields.
DocSnap(id, exists, fields) ==
    [id |-> id, ref |-> "ref:docs/" \o id, exists |-> exists, fields |-> fields]

\* snapshot.data()
SnapData(s) == IF s.exists THEN Obj(s.fields) ELSE Undefined

\* What the SDK may deliver for the document.
DocSnaps ==
    { DocSnap("d1", FALSE, {}),
      DocSnap("d1", TRUE, {<<"x", "1">>}),
      DocSnap("d1", TRUE, {<<"x", "2">>}) }

\* What the SDK may deliver for the collection: the documents in query
\* order.  Document d3 stores a field called id in its data.
D1 == DocSnap("d1", TRUE, {<<"x", "1">>})
D2 == DocSnap("d2", TRUE, {})
D3 == DocSnap("d3", TRUE, {<<"id", "other">>, <<"x", "2">>})
ColSnaps == { <<>>, <<D1, D2>>, <<D3>> }

\* ------------------------------------------------------------ state
VARIABLES
    window,       \* globalThis.window is defined
    firestoreCtx, \* getFirebaseContext().firestore is defined
    store,        \* the store under observation
    listeners,    \* the SDK's snapshot listeners, in registration order
    got,          \* per subscriber: the values its callback was run with
    seen,         \* per subscriber: the snapshots delivered while subscribed
    nSnaps,       \* snapshots delivered so far
    ret,          \* the last get*Value call: arguments and result
    user,         \* the value of the authentication-state store
    dstore,       \* the store userDataStore returned
    docstores,    \* the docStores the derived store's callback has built
    notified,     \* per subscriber of dstore: the last value it was run with
    peak          \* the most listeners that were ever registered at once

storeVars == <<store, got, seen, ret>>
userVars == <<user, dstore, docstores, notified, peak>>
vars == <<window, firestoreCtx, store, listeners, got, seen, nSnaps, ret,
          user, dstore, docstores, notified, peak>>

NoStore ==
    [kind |-> "none", variant |-> "none", mode |-> "none", ref |-> NullRef,
     id |-> "", firestore |-> FALSE, startWith |-> Undefined,
     value |-> Undefined, subs |-> {}, stop |-> FALSE, unsubscribe |-> 0,
     everSub |-> FALSE]

NoRet ==
    [fn |-> "none", firestore |-> FALSE, startWith |-> Undefined,
     value |-> Undefined, activeBefore |-> 0, activeAfter |-> 0,
     listener |-> 0]

\* ------------------------------------------------------------ the SDK
Active(ls) == {i \in 1..Len(ls) : ls[i].cancels = 0}

ActiveOf(ls, owner) == {i \in Active(ls) : ls[i].owner = owner}

\* The most recently registered listener of a store (0: none).
Latest(ls, owner) ==
    LET mine == {i \in 1..Len(ls) : ls[i].owner = owner}
    IN IF mine = {} THEN 0 ELSE CHOOSE i \in mine : \A j \in mine : j <= i

\* onSnapshot(ref, cb): registers a listener for the store `owner`; its
\* index stands for the cancel function onSnapshot returns.
onSnapshot(ls, ref, owner) ==
    Append(ls, [ref |-> ref, owner |-> owner, cancels |-> 0, subsLeft |-> 0,
                latest |-> 0])

\* Calling the cancel function of listener id.  subsLeft and latest record
\* the moment of the call: how many subscribers the store still had, and
\* which of the store's listeners was the most recently registered one.
Cancel(ls, id, subsLeft) ==
    [ls EXCEPT ![id] = [@ EXCEPT !.cancels = @ + 1, !.subsLeft = subsLeft,
                                 !.latest = Latest(ls, ls[id].owner)]]

\* ------------------------------------------------------------ the stores
\* A store record; construction returns it with the SDK's listeners.
StoreRec(kind, variant, mode, ref, id, firestore, startWith, value) ==
    [kind |-> kind, variant |-> variant, mode |-> mode, ref |-> ref,
     id |-> id, firestore |-> firestore, startWith |-> startWith,
     value |-> value, subs |-> {}, stop |-> FALSE, unsubscribe |-> 0,
     everSub |-> FALSE]

\* Fallback for SSR: writable(startWith), ref null, id "".
SsrFallback(ls, kind, variant, firestore, startWith) ==
    [st |-> StoreRec(kind, variant, "ssr", NullRef, "", firestore, startWith,
                     startWith),
     ls |-> ls]

\* Fallback for missing SDK: writable(null) or writable([]), ref null, id "".
MissingSdkFallback(ls, kind, variant, startWith) ==
    [st |-> StoreRec(kind, variant, "nosdk", NullRef, "", FALSE, startWith,
                     IF kind = "doc" THEN Null ELSE EmptyList),
     ls |-> ls]

\* The same with the listener registered while the store is built.
LiveEager(ls, kind, variant, ref, id, startWith) ==
    [st |-> [StoreRec(kind, variant, "live", ref, id, TRUE, startWith, startWith)
                EXCEPT !.unsubscribe = Len(ls) + 1],
     ls |-> onSnapshot(ls, ref, "store")]

\* writable(startWith, start) on the resolved reference: nothing is
\* registered until the store starts.
Live(ls, kind, variant, ref, id, startWith) ==
    [st |-> StoreRec(kind, variant, "live", ref, id, TRUE, startWith, startWith),
     ls |-> ls]

\* The same with the missing-SDK check before the SSR check.
docStoreSdkFirst(ls, win, firestore, arg, startWith) ==
    IF ~firestore THEN MissingSdkFallback(ls, "doc", "both", startWith)
    ELSE IF ~win THEN SsrFallback(ls, "doc", "both", firestore, startWith)
    ELSE Live(ls, "doc", "both", ResolveRef(arg), RefIdOf(arg), startWith)

\* The same with the missing-SDK fallback starting from startWith.
docStoreKeepsStartWith(ls, win, firestore, arg, startWith) ==
    IF ~win THEN SsrFallback(ls, "doc", "both", firestore, startWith)
    ELSE IF ~firestore
    THEN [st |-> StoreRec("doc", "both", "nosdk", NullRef, "", FALSE, startWith,
                          startWith),
          ls |-> ls]
    ELSE Live(ls, "doc", "both", ResolveRef(arg), RefIdOf(arg), startWith)

\* docStore reads the same in both files.
docStore(ls, win, firestore, arg, startWith) ==
    IF ~win THEN SsrFallback(ls, "doc", "both", firestore, startWith)
    ELSE IF ~firestore THEN MissingSdkFallback(ls, "doc", "both", startWith)
    ELSE Live(ls, "doc", "both", ResolveRef(arg), RefIdOf(arg), startWith)

\* The default of collectionStore's startWith parameter in each file.
collectionStartWithCtx(startWith) ==
    IF startWith = Undefined THEN EmptyList ELSE startWith

collectionStartWithParam(startWith) ==
    IF startWith = Undefined THEN Undefined ELSE startWith

collectionStartWith(variant, startWith) ==
    IF variant = "ctx" THEN collectionStartWithCtx(startWith)
    ELSE collectionStartWithParam(startWith)

collectionStore(ls, variant, win, firestore, arg, startWith) ==
    LET sw == collectionStartWith(variant, startWith)
    IN IF ~win THEN SsrFallback(ls, "col", variant, firestore, sw)
       ELSE IF ~firestore THEN MissingSdkFallback(ls, "col", variant, sw)
       ELSE Live(ls, "col", variant, ResolveRef(arg), "", sw)

\* set((snapshot.data() as T) ?? null)
docValue(s) == Coalesce(SnapData(s), Null)

\* snapshot.docs.map((s) => ({ id: s.id, ref: s.ref, ...s.data() }))
colRecord(s) == Spread({<<"id", s.id>>, <<"ref", s.ref>>}, s.fields)

colValue(docs) == List([i \in 1..Len(docs) |-> colRecord(docs[i])])

\* The value the snapshot callback hands to set.
SnapValue(kind, snap) ==
    IF kind = "doc" THEN docValue(snap.doc) ELSE colValue(snap.docs)

\* The start function: registers the listener and keeps its cancel function
\* in the variable unsubscribe.
Start(st, ls, owner) ==
    IF st.mode = "live"
    THEN [st |-> [st EXCEPT !.stop = TRUE, !.unsubscribe = Len(ls) + 1],
          ls |-> onSnapshot(ls, st.ref, owner)]
    ELSE [st |-> [st EXCEPT !.stop = TRUE], ls |-> ls]

\* A stop function that kept the cancel function of the store's first
\* listener instead of reading the variable.
StopFirst(st, ls) ==
    IF st.mode = "live"
    THEN [st |-> [st EXCEPT !.stop = FALSE],
          ls |-> Cancel(ls,
                        CHOOSE i \in 1..Len(ls) :
                            /\ ls[i].owner = ls[st.unsubscribe].owner
                            /\ \A j \in 1..Len(ls) :
                                 ls[j].owner = ls[i].owner => i <= j,
                        Cardinality(st.subs))]
    ELSE [st |-> [st EXCEPT !.stop = FALSE], ls |-> ls]

\* The stop function: () => unsubscribe()
Stop(st, ls) ==
    IF st.mode = "live"
    THEN [st |-> [st EXCEPT !.stop = FALSE],
          ls |-> Cancel(ls, st.unsubscribe, Cardinality(st.subs))]
    ELSE [st |-> [st EXCEPT !.stop = FALSE], ls |-> ls]

\* writable's subscribe(run): adds the subscriber, starts the store when it
\* is the first one, and runs the callback with the current value.
SubscribeTo(st, ls, s, owner) ==
    LET st1 == [st EXCEPT !.subs = @ \cup {s}, !.everSub = TRUE]
        r == IF Cardinality(st1.subs) = 1 THEN Start(st1, ls, owner)
             ELSE [st |-> st1, ls |-> ls]
    IN [st |-> r.st, ls |-> r.ls, run |-> r.st.value]

\* The function subscribe returns: removes the subscriber and stops the
\* store when none is left.
UnsubscribeFrom(st, ls, s) ==
    LET st1 == [st EXCEPT !.subs = @ \ {s}]
    IN IF st1.subs = {} /\ st1.stop THEN Stop(st1, ls)
       ELSE [st |-> st1, ls |-> ls]

\* writable's set(v): stores v unless it is an equal primitive; run tells
\* whether the subscribers are notified.
WritableSet(st, v) ==
    IF safe_not_equal(st.value, v)
    THEN [st |-> [st EXCEPT !.value = v], run |-> st.stop]
    ELSE [st |-> st, run |-> FALSE]

\* ------------------------------------------------------------ actions
StartWiths(kind) ==
    IF kind = "doc" THEN {Undefined, Obj({<<"x", "0">>})}
    ELSE {Undefined, List(<<{<<"x", "0">>}>>)}

Variants == {"ctx", "param"}

Snaps(kind) ==
    IF kind = "doc" THEN {[doc |-> d, docs |-> <<>>] : d \in DocSnaps}
    ELSE {[doc |-> DocSnap("", FALSE, {}), docs |-> ds] : ds \in ColSnaps}

NoDerived == [value |-> Undefined, subs |-> {}, stop |-> FALSE, cleanup |-> 0]

Init ==
    /\ window \in BOOLEAN
    /\ firestoreCtx = TRUE
    /\ store = NoStore
    /\ listeners = <<>>
    /\ got = [s \in SubIds |-> <<>>]
    /\ seen = [s \in SubIds |-> <<>>]
    /\ nSnaps = 0
    /\ ret = NoRet
    /\ user = "null"
    /\ dstore = NoDerived
    /\ docstores = <<>>
    /\ notified = [s \in SubIds |-> Undefined]
    /\ peak = 0

\* const store = docStore(ref, startWith)
MakeDocStore ==
    /\ store.kind = "none"
    /\ \E firestore \in BOOLEAN, arg \in RefArgs(DocPath), sw \in StartWiths("doc") :
          LET r == docStore(listeners, window, firestore, arg, sw)
          IN store' = r.st /\ listeners' = r.ls
    /\ UNCHANGED <<window, firestoreCtx, got, seen, nSnaps, ret>>
    /\ UNCHANGED userVars

\* const store = collectionStore(ref, startWith)
MakeCollectionStore ==
    /\ store.kind = "none"
    /\ \E variant \in Variants, firestore \in BOOLEAN, arg \in RefArgs(ColPath),
          sw \in StartWiths("col") :
          LET r == collectionStore(listeners, variant, window, firestore, arg, sw)
          IN store' = r.st /\ listeners' = r.ls
    /\ UNCHANGED <<window, firestoreCtx, got, seen, nSnaps, ret>>
    /\ UNCHANGED userVars

\* store.subscribe(cb).  Subscribers are interchangeable: a new one takes
\* the lowest free identity.
Subscribe(s) ==
    /\ store.kind /= "none"
    /\ s \notin store.subs
    /\ \A r \in SubIds \ store.subs : s <= r
    /\ (store.mode = "live" /\ store.subs = {}) => Len(listeners) < MaxListeners
    /\ LET r == SubscribeTo(store, listeners, s, "store")
       IN /\ store' = r.st
          /\ listeners' = r.ls
          /\ got' = [got EXCEPT ![s] = <<r.run>>]
          /\ seen' = [seen EXCEPT ![s] = <<>>]
    /\ UNCHANGED <<window, firestoreCtx, nSnaps, ret>>
    /\ UNCHANGED userVars

\* Calling the function store.subscribe(cb) returned.
Unsubscribe(s) ==
    /\ s \in store.subs
    /\ LET r == UnsubscribeFrom(store, listeners, s)
       IN /\ store' = r.st
          /\ listeners' = r.ls
    /\ got' = [got EXCEPT ![s] = <<>>]
    /\ seen' = [seen EXCEPT ![s] = <<>>]
    /\ UNCHANGED <<window, firestoreCtx, nSnaps, ret>>
    /\ UNCHANGED userVars

\* A callback that forwards only the first snapshot of a listener.
SnapshotFirstOnly ==
    /\ ActiveOf(listeners, "store") /= {}
    /\ nSnaps < MaxSnaps
    /\ \E snap \in Snaps(store.kind) :
          LET r == IF \E s \in store.subs : seen[s] /= <<>>
                   THEN [st |-> store, run |-> FALSE]
                   ELSE WritableSet(store, SnapValue(store.kind, snap))
          IN /\ store' = r.st
             /\ got' = [s \in SubIds |->
                          IF s \in store.subs /\ r.run
                          THEN Append(got[s], r.st.value) ELSE got[s]]
             /\ seen' = [s \in SubIds |->
                          IF s \in store.subs THEN Append(seen[s], snap)
                          ELSE seen[s]]
    /\ nSnaps' = nSnaps + 1
    /\ UNCHANGED <<window, firestoreCtx, listeners, ret>>
    /\ UNCHANGED userVars

\* The SDK calls the store's registered listener with a snapshot; the
\* callback maps it and hands it to set.
Snapshot ==
    /\ ActiveOf(listeners, "store") /= {}
    /\ nSnaps < MaxSnaps
    /\ \E snap \in Snaps(store.kind) :
          LET r == WritableSet(store, SnapValue(store.kind, snap))
          IN /\ store' = r.st
             /\ got' = [s \in SubIds |->
                          IF s \in store.subs /\ r.run
                          THEN Append(got[s], r.st.value) ELSE got[s]]
             /\ seen' = [s \in SubIds |->
                          IF s \in store.subs THEN Append(seen[s], snap)
                          ELSE seen[s]]
    /\ nSnaps' = nSnaps + 1
    /\ UNCHANGED <<window, firestoreCtx, listeners, ret>>
    /\ UNCHANGED userVars

\* A read that subscribes and never calls the function subscribe returned.
GetValueNoUnsubscribe(fn, r0, firestore, sw) ==
    /\ r0.st.mode = "live" => Len(listeners) < MaxListeners
    /\ LET r1 == SubscribeTo(r0.st, r0.ls, 1, "temp")
       IN /\ listeners' = r1.ls
          /\ ret' = [fn |-> fn, firestore |-> firestore, startWith |-> sw,
                     value |-> r1.run,
                     activeBefore |-> Cardinality(Active(listeners)),
                     activeAfter |-> Cardinality(Active(r1.ls)),
                     listener |-> r1.st.unsubscribe]
    /\ UNCHANGED <<window, firestoreCtx, store, got, seen, nSnaps>>
    /\ UNCHANGED userVars

\* store.subscribe((val) => (value = val))(); return value
\* r0 is the store the function has just built.
GetValue(fn, r0, firestore, sw) ==
    /\ r0.st.mode = "live" => Len(listeners) < MaxListeners
    /\ LET r1 == SubscribeTo(r0.st, r0.ls, 1, "temp")
           r2 == UnsubscribeFrom(r1.st, r1.ls, 1)
       IN /\ listeners' = r2.ls
          /\ ret' = [fn |-> fn, firestore |-> firestore, startWith |-> sw,
                     value |-> r1.run,
                     activeBefore |-> Cardinality(Active(listeners)),
                     activeAfter |-> Cardinality(Active(r2.ls)),
                     listener |-> r1.st.unsubscribe]
    /\ UNCHANGED <<window, firestoreCtx, store, got, seen, nSnaps>>
    /\ UNCHANGED userVars

getCollectionValue ==
    \E firestore \in BOOLEAN, arg \in RefArgs(ColPath), sw \in StartWiths("col") :
        GetValue("getCollectionValue",
                 collectionStore(listeners, "param", window, firestore, arg, sw),
                 firestore, sw)

getDocValue ==
    \E firestore \in BOOLEAN, arg \in RefArgs(DocPath), sw \in StartWiths("doc") :
        GetValue("getDocValue",
                 docStore(listeners, window, firestore, arg, sw),
                 firestore, sw)

Next ==
    \/ MakeDocStore
    \/ MakeCollectionStore
    \/ \E s \in SubIds : Subscribe(s)
    \/ \E s \in SubIds : Unsubscribe(s)
    \/ Snapshot

Spec == Init /\ [][Next]_vars

\* The one-shot reads, called while a store may be live beside them.
NextGet ==
    \/ MakeDocStore
    \/ MakeCollectionStore
    \/ \E s \in SubIds : Subscribe(s)
    \/ \E s \in SubIds : Unsubscribe(s)
    \/ getCollectionValue
    \/ getDocValue

SpecGet == Init /\ [][NextGet]_vars

\* ------------------------------------------------------------ userDataStore
Users == {"a", "b"}

\* `${collectionPath}/${$user.uid}` with collectionPath = "users"
UserPath(u) == "users/" \o u

OwnerOf(k) == "doc" \o ToString(k)

\* What the SDK may deliver for the document of user u.
UserSnaps(u) ==
    { DocSnap(u, FALSE, {}), DocSnap(u, TRUE, {<<"owner", u>>, <<"x", "1">>}) }

\* The user whose document a listener watches.
UserOfRef(ref) == CHOOSE u \in Users \cup {"null"} : ref = "ref:" \o UserPath(u)

Max(a, b) == IF a >= b THEN a ELSE b

\* The callback with the unsubscribe function dropped instead of returned.
UserCallbackNoCleanup(d, ds, ls, u) ==
    IF u = "null"
    THEN LET w == WritableSet(d, Null)
         IN [d |-> [w.st EXCEPT !.cleanup = 0], ds |-> ds, ls |-> ls,
             run |-> w.run]
    ELSE LET r0 == docStore(ls, window, firestoreCtx,
                            [isString |-> TRUE, path |-> UserPath(u),
                             ref |-> NullRef],
                            Undefined)
             r1 == SubscribeTo(r0.st, r0.ls, 1, OwnerOf(Len(ds) + 1))
             w == WritableSet(d, r1.run)
         IN [d |-> [w.st EXCEPT !.cleanup = 0], ds |-> Append(ds, r1.st),
             ls |-> r1.ls, run |-> w.run]

\* The callback without its first line.
UserCallbackNoNullCheck(d, ds, ls, u) ==
    LET r0 == docStore(ls, window, firestoreCtx,
                       [isString |-> TRUE, path |-> UserPath(u),
                        ref |-> NullRef],
                       Undefined)
        r1 == SubscribeTo(r0.st, r0.ls, 1, OwnerOf(Len(ds) + 1))
        w == WritableSet(d, r1.run)
    IN [d |-> [w.st EXCEPT !.cleanup = Len(ds) + 1], ds |-> Append(ds, r1.st),
        ls |-> r1.ls, run |-> w.run]

\* ($user, set) => { if (!$user) return set(null);
\*                   return docStore(fullPath).subscribe(set); }
\* d is the derived store, whose set the callback is given; the docStore
\* built is appended to ds and its unsubscribe function becomes the cleanup.
UserCallback(d, ds, ls, u) ==
    IF u = "null"
    THEN LET w == WritableSet(d, Null)
         IN [d |-> [w.st EXCEPT !.cleanup = 0], ds |-> ds, ls |-> ls,
             run |-> w.run]
    ELSE LET r0 == docStore(ls, window, firestoreCtx,
                            [isString |-> TRUE, path |-> UserPath(u),
                             ref |-> NullRef],
                            Undefined)
             r1 == SubscribeTo(r0.st, r0.ls, 1, OwnerOf(Len(ds) + 1))
             w == WritableSet(d, r1.run)
         IN [d |-> [w.st EXCEPT !.cleanup = Len(ds) + 1],
             ds |-> Append(ds, r1.st), ls |-> r1.ls, run |-> w.run]

\* derived's cleanup(): the function the callback returned last, if any.
Cleanup(d, ds, ls) ==
    IF d.cleanup = 0 THEN [ds |-> ds, ls |-> ls]
    ELSE LET r == UnsubscribeFrom(ds[d.cleanup], ls, 1)
         IN [ds |-> [ds EXCEPT ![d.cleanup] = r.st], ls |-> r.ls]

\* derived's sync(): cleanup(), then the callback with the user's value.
\* peak is the most listeners registered at once on the way.
Sync(d, ds, ls, u) ==
    LET c == Cleanup(d, ds, ls)
        f == UserCallback(d, c.ds, c.ls, u)
    IN [d |-> f.d, ds |-> f.ds, ls |-> f.ls, run |-> f.run,
        peak |-> Max(Cardinality(Active(c.ls)), Cardinality(Active(f.ls)))]

InitUser ==
    /\ window \in BOOLEAN
    /\ firestoreCtx \in BOOLEAN
    /\ store = NoStore
    /\ listeners = <<>>
    /\ got = [s \in SubIds |-> <<>>]
    /\ seen = [s \in SubIds |-> <<>>]
    /\ nSnaps = 0
    /\ ret = NoRet
    /\ user \in Users \cup {"null"}
    /\ dstore = NoDerived
    /\ docstores = <<>>
    /\ notified = [s \in SubIds |-> Undefined]
    /\ peak = 0

\* userDataStore().subscribe(cb): the first subscriber starts the derived
\* store, which subscribes to the user store and runs sync().
DSubscribe(s) ==
    /\ s \notin dstore.subs
    /\ \A r \in SubIds \ dstore.subs : s <= r
    /\ (dstore.subs = {} /\ user /= "null") => Len(docstores) < MaxListeners
    /\ LET d1 == [dstore EXCEPT !.subs = @ \cup {s}]
           r == IF dstore.subs = {}
                THEN Sync(d1, docstores, listeners, user)
                ELSE [d |-> d1, ds |-> docstores, ls |-> listeners,
                      run |-> FALSE, peak |-> peak]
       IN /\ dstore' = [r.d EXCEPT !.stop = TRUE]
          /\ docstores' = r.ds
          /\ listeners' = r.ls
          /\ peak' = Max(peak, r.peak)
          /\ notified' = [notified EXCEPT ![s] = r.d.value]
    /\ UNCHANGED <<window, firestoreCtx, nSnaps, user>>
    /\ UNCHANGED storeVars

\* Calling the function subscribe returned: the last subscriber stops the
\* derived store, which unsubscribes from the user store and runs cleanup().
DUnsubscribe(s) ==
    /\ s \in dstore.subs
    /\ LET d1 == [dstore EXCEPT !.subs = @ \ {s}]
       IN IF d1.subs = {} /\ d1.stop
          THEN LET c == Cleanup(d1, docstores, listeners)
               IN /\ dstore' = [d1 EXCEPT !.stop = FALSE, !.cleanup = 0]
                  /\ docstores' = c.ds
                  /\ listeners' = c.ls
          ELSE /\ dstore' = d1
               /\ UNCHANGED <<docstores, listeners>>
    /\ notified' = [notified EXCEPT ![s] = Undefined]
    /\ UNCHANGED <<window, firestoreCtx, nSnaps, user, peak>>
    /\ UNCHANGED storeVars

\* The authentication state changes to u (sign-in, sign-out, switch); a
\* started derived store is called back and runs sync().
AuthChange(u) ==
    /\ u /= user
    /\ (dstore.stop /\ u /= "null") => Len(docstores) < MaxListeners
    /\ user' = u
    /\ IF dstore.stop
       THEN LET r == Sync(dstore, docstores, listeners, u)
            IN /\ dstore' = r.d
               /\ docstores' = r.ds
               /\ listeners' = r.ls
               /\ peak' = Max(peak, r.peak)
               /\ notified' = [s \in SubIds |->
                                 IF s \in dstore.subs /\ r.run THEN r.d.value
                                 ELSE notified[s]]
       ELSE UNCHANGED <<dstore, docstores, listeners, peak, notified>>
    /\ UNCHANGED <<window, firestoreCtx, nSnaps>>
    /\ UNCHANGED storeVars

\* The SDK calls listener i with a snapshot of its document: the docStore's
\* callback sets its value, and the docStore notifies the derived store's set
\* if that is still subscribed to it.
Deliver(i, snap) ==
    LET k == CHOOSE j \in 1..Len(docstores) : OwnerOf(j) = listeners[i].owner
        w == WritableSet(docstores[k], docValue(snap))
        subscribed == w.run /\ w.st.subs /= {}
        w2 == IF subscribed THEN WritableSet(dstore, w.st.value)
              ELSE [st |-> dstore, run |-> FALSE]
    IN /\ docstores' = [docstores EXCEPT ![k] = w.st]
       /\ dstore' = w2.st
       /\ notified' = [s \in SubIds |->
                         IF s \in dstore.subs /\ w2.run THEN w2.st.value
                         ELSE notified[s]]
       /\ nSnaps' = nSnaps + 1
       /\ UNCHANGED <<window, firestoreCtx, listeners, user, peak>>
       /\ UNCHANGED storeVars

\* A snapshot for a registered listener.
UserSnapshot ==
    /\ nSnaps < MaxSnaps
    /\ \E i \in Active(listeners) :
          \E snap \in UserSnaps(UserOfRef(listeners[i].ref)) : Deliver(i, snap)

\* A snapshot that was on its way when its listener was cancelled.
LateSnapshot ==
    /\ nSnaps < MaxSnaps
    /\ \E i \in (1..Len(listeners)) \ Active(listeners) :
          \E snap \in UserSnaps(UserOfRef(listeners[i].ref)) : Deliver(i, snap)

NextUser ==
    \/ \E s \in SubIds : DSubscribe(s)
    \/ \E s \in SubIds : DUnsubscribe(s)
    \/ \E u \in Users \cup {"null"} : AuthChange(u)
    \/ UserSnapshot
    \/ LateSnapshot

SpecUser == InitUser /\ [][NextUser]_vars

\* ------------------------------------------------------------ properties
StoreActive == ActiveOf(listeners, "store")

LiveStore == store.kind /= "none" /\ store.mode = "live"

\* C1 (lazy activation): a store built with a window and an initialized
\* firestore has no listener registered before its first subscription; a step
\* registers a listener exactly when it takes the subscriber count from 0 to
\* 1; at most one listener of the store is registered at any time.
C1_LazyActivation ==
    /\ [](LiveStore =>
            /\ (~store.everSub => listeners = <<>>)
            /\ Cardinality(StoreActive) <= 1)
    /\ [][(store.kind /= "none" /\ store.mode = "live") =>
            (Len(listeners') > Len(listeners)
               <=> (store.subs = {} /\ Cardinality(store'.subs) = 1))]_vars

\* A second subscriber has joined after a drop to zero: two listeners were
\* registered in all, one per 0 -> 1 step.
C1_Witness ==
    /\ LiveStore
    /\ Cardinality(store.subs) = 2
    /\ Len(listeners) = 2
    /\ Cardinality(StoreActive) = 1

\* C2 as stated (teardown tied to the store), for every store: a listener is
\* registered if and only if the store has a subscriber; every listener is
\* cancelled at most once, with no subscriber left, through the cancel
\* function of the store's most recently registered listener.
C2_Original ==
    store.kind /= "none" =>
        /\ (StoreActive /= {} <=> store.subs /= {})
        /\ \A i \in 1..Len(listeners) :
              /\ listeners[i].cancels <= 1
              /\ listeners[i].cancels = 1 =>
                    listeners[i].subsLeft = 0 /\ listeners[i].latest = i
              /\ listeners[i].cancels = 0 => i = Latest(listeners, "store")

\* C2 amended: the same for a store built with a window and an initialized
\* firestore.
C2_Teardown ==
    LiveStore =>
        /\ (StoreActive /= {} <=> store.subs /= {})
        /\ \A i \in 1..Len(listeners) :
              /\ listeners[i].cancels <= 1
              /\ listeners[i].cancels = 1 =>
                    listeners[i].subsLeft = 0 /\ listeners[i].latest = i
              /\ listeners[i].cancels = 0 => i = Latest(listeners, "store")

\* Two drop-to-zero cycles are over and a third listener is registered.
C2_Witness ==
    /\ LiveStore
    /\ Len(listeners) = 3
    /\ listeners[1].cancels = 1 /\ listeners[2].cancels = 1
    /\ StoreActive = {3}
    /\ store.subs /= {}

\* C3 (SSR fallback): without a window the store has ref null (and id "" for
\* docStore), no listener is ever registered, and every subscriber has
\* received exactly startWith, whether or not firestore is initialized.
C3_SsrFallback ==
    (~window /\ store.kind /= "none") =>
        /\ store.ref = NullRef
        /\ (store.kind = "doc" => store.id = "")
        /\ listeners = <<>>
        /\ \A s \in store.subs : got[s] = <<store.startWith>>

\* No window and no firestore: the subscriber got startWith, not the
\* missing-SDK fallback value.
C3_Witness ==
    /\ ~window
    /\ store.kind = "doc"
    /\ ~store.firestore
    /\ store.startWith = Obj({<<"x", "0">>})
    /\ store.subs /= {}
    /\ \A s \in store.subs : got[s] = <<Obj({<<"x", "0">>})>>

\* C4 (graceful degradation): with a window and no firestore a store is
\* returned with ref null (id "" for docStore), no listener is ever
\* registered, and every subscriber has received null (docStore) or the empty
\* list (collectionStore), whatever startWith was.
C4_MissingSdk ==
    (window /\ store.kind /= "none" /\ ~store.firestore) =>
        /\ store.ref = NullRef
        /\ (store.kind = "doc" => store.id = "")
        /\ listeners = <<>>
        /\ \A s \in store.subs :
              got[s] = <<IF store.kind = "doc" THEN Null ELSE EmptyList>>

\* A docStore built with a startWith and no firestore handed null to its
\* subscriber.
C4_Witness ==
    /\ window
    /\ store.kind = "doc"
    /\ ~store.firestore
    /\ store.startWith = Obj({<<"x", "0">>})
    /\ store.subs /= {}
    /\ \A s \in store.subs : got[s] = <<Null>>

\* The values the snapshots of a sequence map to.
Mapped(kind, snaps) == [i \in 1..Len(snaps) |-> SnapValue(kind, snaps[i])]

\* Those among them a subscriber is notified of: a null that arrives while
\* the value is already null is not notified.
RECURSIVE Notified(_, _)
Notified(prev, vals) ==
    IF vals = <<>> THEN <<>>
    ELSE IF Head(vals) = Null /\ prev = Null THEN Notified(prev, Tail(vals))
    ELSE <<Head(vals)>> \o Notified(Head(vals), Tail(vals))

\* C5 as stated (forwarding): what a subscriber of a live store received
\* after its initial value is the sequence of values of the snapshots
\* delivered while it was subscribed, one notification per snapshot.
C5_Original ==
    LiveStore =>
        \A s \in store.subs : Tail(got[s]) = Mapped(store.kind, seen[s])

\* C5 amended: the same, except that a snapshot of a document without data
\* is not notified while the store's value is already null.
C5_Forwarding ==
    LiveStore =>
        \A s \in store.subs :
            Tail(got[s]) = Notified(Head(got[s]), Mapped(store.kind, seen[s]))

\* A subscriber has received three snapshots, two of them different data.
C5_Witness ==
    /\ LiveStore
    /\ \E s \in store.subs :
          /\ Len(seen[s]) = 3
          /\ Len(got[s]) = 4
          /\ got[s][2] /= got[s][3]

\* C6 (snapshot-to-record mapping): after a snapshot the value of a
\* collectionStore is a list with one record per document, in order, whose id
\* and ref are the document's and which carries the document's fields; the
\* value of a docStore is the document's data, or null without data.
C6_Mapping ==
    LiveStore =>
        \A s \in store.subs :
            seen[s] /= <<>> =>
                LET snap == seen[s][Len(seen[s])]
                    v == store.value
                IN IF store.kind = "doc"
                   THEN IF snap.doc.exists
                        THEN v.t = "object" /\ v.o = snap.doc.fields
                        ELSE v = Null
                   ELSE /\ v.t = "list"
                        /\ Len(v.l) = Len(snap.docs)
                        /\ \A i \in 1..Len(snap.docs) :
                              /\ <<"id", snap.docs[i].id>> \in v.l[i]
                              /\ <<"ref", snap.docs[i].ref>> \in v.l[i]
                              /\ snap.docs[i].fields \subseteq v.l[i]

\* C8 (one-shot reads): after a get*Value call as many listeners are
\* registered as before it, the listener the call registered (if any) was
\* cancelled once, and the value returned is the one the store held when it
\* was subscribed to: startWith, or null / the empty list when there is a
\* window and no firestore.
C8_OneShot ==
    ret.fn /= "none" =>
        /\ ret.activeAfter = ret.activeBefore
        /\ ret.listener /= 0 =>
              /\ ret.listener \notin Active(listeners)
              /\ listeners[ret.listener].cancels = 1
        /\ ret.value =
              IF window /\ ~ret.firestore
              THEN (IF ret.fn = "getDocValue" THEN Null ELSE EmptyList)
              ELSE ret.startWith

\* getDocValue returned startWith after registering and cancelling a
\* listener of its own, while another store's listener stayed registered.
C8_Witness ==
    /\ ret.fn = "getDocValue"
    /\ ret.listener /= 0
    /\ ret.activeBefore = 1
    /\ ret.value = Obj({<<"x", "0">>})

\* C10 (collection values are lists): every value a collectionStore
\* subscriber received and every value getCollectionValue returned is a list.
C10_AlwaysList ==
    /\ store.kind = "col" =>
          \A s \in store.subs : \A i \in 1..Len(got[s]) : got[s][i].t = "list"
    /\ ret.fn = "getCollectionValue" => ret.value.t = "list"

\* The value is null, the not-yet-loaded initial value, or data of the
\* document of user u.
ValueOf(v, u) ==
    \/ v = Null
    \/ v = Undefined
    \/ v.t = "object" /\ <<"owner", u>> \in v.o

\* C7 as stated (userDataStore composition): at most one document listener
\* is registered, also on the way through a change of user; it is on
\* users/<uid of the current user>; none is registered while the user is null
\* or the derived store has no subscriber; the store's value is null whenever
\* the user is null.
C7_Original ==
    /\ Cardinality(Active(listeners)) <= 1
    /\ peak <= 1
    /\ \A i \in Active(listeners) : listeners[i].ref = "ref:" \o UserPath(user)
    /\ (user = "null" \/ dstore.subs = {}) => Active(listeners) = {}
    /\ user = "null" => dstore.value = Null

\* C7 amended: the same, the last part for a derived store that has a
\* subscriber.
C7_Composition ==
    /\ Cardinality(Active(listeners)) <= 1
    /\ peak <= 1
    /\ \A i \in Active(listeners) : listeners[i].ref = "ref:" \o UserPath(user)
    /\ (user = "null" \/ dstore.subs = {}) => Active(listeners) = {}
    /\ (user = "null" /\ dstore.subs /= {}) => dstore.value = Null

\* After a switch from one user to another the second listener is the only
\* one registered and watches the second user's document.
C7_Witness ==
    /\ Len(listeners) = 2
    /\ listeners[1].ref /= listeners[2].ref
    /\ Active(listeners) = {2}
    /\ listeners[2].ref = "ref:" \o UserPath(user)
    /\ dstore.subs /= {}

\* C9 as stated (no cross-user data): in every state the value the derived
\* store holds, and the value each subscriber was last notified with, is
\* null, the initial value, or data of the current user's document.
C9_Original ==
    /\ ValueOf(dstore.value, user)
    /\ \A s \in dstore.subs : ValueOf(notified[s], user)

\* C9 amended: the same in every state in which the derived store has a
\* subscriber.
C9_NoCrossUser ==
    /\ dstore.subs /= {} => ValueOf(dstore.value, user)
    /\ \A s \in dstore.subs : ValueOf(notified[s], user)

\* The user has changed after the first user's data was delivered, a late
\* snapshot of the first user's document has arrived since, and the
\* subscriber holds the second user's data.
C9_Witness ==
    /\ Len(listeners) = 2
    /\ user /= "null"
    /\ listeners[1].ref /= "ref:" \o UserPath(user)
    /\ docstores[1].value.t = "object"
    /\ nSnaps = 3
    /\ dstore.subs /= {}
    /\ dstore.value.t = "object"
    /\ \A s \in dstore.subs : notified[s] = dstore.value

====
